---- MODULE Spec2Model ----
(***************************************************************************)
(* A model of three parts of libmv:                                        *)
(*   - the mosaicing tool (ComputeRelativeAffineMatrices,                  *)
(*     ComputeRelativeHomographyMatrices, ComputeGlobalBoundingBox,        *)
(*     BuildMosaic, main), specification Spec;                             *)
(*   - the projection helpers P_From_KRt and KRt_From_P, specification     *)
(*     SpecKRt;                                                            *)
(*   - FundamentalRank2Parameterization::To / ::From, specification SpecF. *)
(* Doubles are modelled by exact numbers: integers in the mosaicing tool   *)
(* (every matrix entry there is an integer), rationals <<num, den>> in the *)
(* two numeric parts, whose inputs are chosen so that every square root    *)
(* taken is the root of a perfect square.                                  *)
(***************************************************************************)
EXTENDS Integers, Sequences, FiniteSets, TLC

VARIABLES
  \* ---- mosaicing tool
  pc,          \* position of the program
  ndebug,      \* the build: TRUE when assert() is compiled out
  constraint,  \* FLAGS_constraint
  nFiles,      \* files.size(), also the number of images of the matches
  pairIdx,     \* ComputeRelative*Matrices: 1-based index of the adjacent pair
  Hs,          \* the relative matrices computed so far
  pairOf,      \* log: for each entry of Hs, the adjacent pair it was fit to
  imagesSize,  \* <<width, height>> of the first image
  H,           \* ComputeGlobalBoundingBox: running absolute transform
  bbox,        \* <<xmin, xmax, ymin, ymax>>
  bi,          \* ComputeGlobalBoundingBox: 1-based outer index
  bc,          \* ComputeGlobalBoundingBox: 1-based corner index
  q,           \* the last corner mapped: H * q_bounds.col(i), before q /= q(2)
  mapped,      \* log: the transform under which each image's corners were mapped
  pts,         \* log: the rounded corner points processed so far
  mH,          \* BuildMosaic: running absolute transform
  mi,          \* BuildMosaic: 0-based loop index
  warped,      \* the last WarpImageBlend call made, NoWarp before the first
  mosaicSize,  \* <<w, h>> given to mosaic->Resize
  \* ---- KRt_From_P, then P_From_KRt on its results
  kpc,         \* position in KRt_From_P / P_From_KRt
  P,           \* the 3x4 projection matrix given
  K,           \* KRt_From_P: K
  Q,           \* KRt_From_P: Q
  R,           \* KRt_From_P: R
  t,           \* KRt_From_P: t
  Pc,          \* the matrix P_From_KRt composes
  \* ---- FundamentalRank2Parameterization: From, then To on its result
  fpc,         \* position
  F,           \* the matrix given to From
  svd,         \* what Eigen::SVD<Parameterized> svd(f) holds: [U, s, V]
  p,           \* the 9 parameters
  S,           \* To: the singular-value matrix
  f            \* To: the matrix built

mvars == <<pc, ndebug, constraint, nFiles, pairIdx, Hs, pairOf, imagesSize, H, bbox,
           bi, bc, q, mapped, pts, mH, mi, warped, mosaicSize>>

kvars == <<kpc, P, K, Q, R, t, Pc>>

fvars == <<fpc, F, svd, p, S, f>>

vars == <<mvars, kvars, fvars>>

\* ------------------------------------------------------------------ bounds
MaxImages == 3
MaxSize == 2
MaxCorr == 4

\* ------------------------------------------------------- program constants
AFFINE == 0
HOMOGRAPHY == 1
AffineMinCols == 2
HomographyMinCols == 4
IntMax == 2147483647
IntMin == -IntMax - 1

\* ------------------------------------------------------------ 3x3 matrices
Mat3Identity == <<<<1, 0, 0>>, <<0, 1, 0>>, <<0, 0, 1>>>>

\* Hs[i] * H with the argument order of the call
MatMul(A, B) ==
  [i \in 1..3 |-> [j \in 1..3 |->
     A[i][1] * B[1][j] + A[i][2] * B[2][j] + A[i][3] * B[3][j]]]

MatVec(A, v) ==
  [i \in 1..3 |-> A[i][1] * v[1] + A[i][2] * v[2] + A[i][3] * v[3]]

Translation(dx, dy) == <<<<1, 0, dx>>, <<0, 1, dy>>, <<0, 0, 1>>>>
Rot90 == <<<<0, -1, 0>>, <<1, 0, 0>>, <<0, 0, 1>>>>
Shear == <<<<1, 1, 0>>, <<0, 1, 0>>, <<0, 0, 1>>>>
\* a rotation by 135 degrees with a scale and a translation
RotScale == <<<<-1, -1, 1>>, <<1, -1, 0>>, <<0, 0, 1>>>>
\* homographies: w = 1 - x (zero on the line x = 1), and w = 2 everywhere
ProjX == <<<<1, 0, 0>>, <<0, 1, 0>>, <<-1, 0, 1>>>>
Halve == <<<<1, 0, 0>>, <<0, 1, 0>>, <<0, 0, 2>>>>

\* what AffineFromCorrespondences2PointRobust may write to A
AffineEstimates ==
  {Mat3Identity, Translation(2, 1), Translation(1, 0), Translation(-1, -2),
   Rot90, Shear, RotScale}

\* what HomographyFromCorrespondences4PointRobust may write to H
HomographyEstimates == {Mat3Identity, ProjX, Halve, Rot90}

AllEstimates == AffineEstimates \cup HomographyEstimates


\* ------------------------------------------------- doubles after q /= q(2)
\* libmv's ceil0: the ceiling of |n / d|, with the sign of n / d  (d # 0)
Ceil0(n, d) ==
  LET an == IF n < 0 THEN -n ELSE n
      ad == IF d < 0 THEN -d ELSE d
      c  == (an + ad - 1) \div ad
  IN  IF (n < 0) = (d < 0) THEN c ELSE -c

\* q(k) / q(2) followed by ceil0: a finite value, or what IEEE division by a
\* zero gives (ceil0 keeps an infinity and a NaN as they are)
DivCeil0(n, w) ==
  IF w # 0 THEN [k |-> "fin", v |-> Ceil0(n, w)]
  ELSE IF n > 0 THEN [k |-> "pinf", v |-> 0]
  ELSE IF n < 0 THEN [k |-> "ninf", v |-> 0]
  ELSE [k |-> "nan", v |-> 0]

\* the int a build may store when an infinite double is converted to int
OutOfRangeInt == {IntMin, IntMax}

\* q_bounds.col(i), i = 1..4
QBounds(size, i) ==
  <<<<0, 0, 1>>, <<0, size[2], 1>>, <<size[1], size[2], 1>>,
    <<size[1], 0, 1>>>>[i]

\* (*bbox) << images_size(0), 0, images_size(1), 0
BBoxInit(size) == <<size[1], 0, size[2], 0>>

\* the mutant of AxisUpdate: the bound written is the other one
AxisUpdateSwapped(lo, hi, d) ==
  IF d.k = "fin"
  THEN IF d.v < lo THEN {<<lo, d.v>>}
       ELSE IF d.v > hi THEN {<<d.v, hi>>}
       ELSE {<<lo, hi>>}
  ELSE {<<lo, hi>>}

\* if (q < lo) lo = q; else if (q > hi) hi = q;   for one axis: the set of
\* <<lo, hi>> the statement may leave
AxisUpdate(lo, hi, d) ==
  CASE d.k = "fin" ->
         IF d.v < lo THEN {<<d.v, hi>>}
         ELSE IF d.v > hi THEN {<<lo, d.v>>}
         ELSE {<<lo, hi>>}
    [] d.k = "ninf" -> {<<x, hi>> : x \in OutOfRangeInt}
    [] d.k = "pinf" -> {<<lo, x>> : x \in OutOfRangeInt}
    [] OTHER -> {<<lo, hi>>}

\* H = Hs[i] * H in ComputeGlobalBoundingBox
BBoxChainStep(rel, abs) == MatMul(rel, abs)

\* the mutant of MosaicChainStep: the relative transform on the right
MosaicChainStepRight(rel, abs) == MatMul(abs, rel)

\* H = Hs[i - 1] * H in BuildMosaic
MosaicChainStep(rel, abs) == MatMul(rel, abs)

\* an unsigned int as <<high 16 bits, low 16 bits>>, from an int
ToUnsigned(d) == <<(d \div 65536) % 65536, d % 65536>>

\* whether the int subtraction a - b overflows
SubOverflows(a, b) ==
  \/ b < 0 /\ a > IntMax + b
  \/ b > 0 /\ a < IntMin + b

\* const unsigned int w = bbox(1) - bbox(0): the values it may take
UnsignedDiff(a, b) ==
  IF SubOverflows(a, b)
  THEN {ToUnsigned(0), ToUnsigned(-1)}
  ELSE {ToUnsigned(a - b)}

\* ------------------------------------------------------------ the program
NoPoint == <<>>
NoWarp == [image |-> 0, H |-> Mat3Identity]

\* what BuildMosaic may read past the end of Hs
OutOfBoundsMatrices == {Rot90, ProjX}

MosaicInit ==
  /\ pc = "main"
  /\ ndebug \in BOOLEAN
  /\ constraint \in {AFFINE, HOMOGRAPHY}
  /\ nFiles \in 1..MaxImages
  /\ pairIdx = 1
  /\ Hs = <<>>
  /\ pairOf = <<>>
  /\ imagesSize = <<0, 0>>
  /\ H = Mat3Identity
  /\ bbox = <<0, 0, 0, 0>>
  /\ bi = 1
  /\ bc = 1
  /\ q = NoPoint
  /\ mapped = <<>>
  /\ pts = <<>>
  /\ mH = Mat3Identity
  /\ mi = 0
  /\ warped = NoWarp
  /\ mosaicSize = <<>>

\* main, up to the switch on FLAGS_constraint
Main ==
  /\ pc = "main"
  /\ pc' = IF nFiles < 2 THEN "not_enough_files"
           ELSE IF constraint = AFFINE THEN "affine" ELSE "homography"
  /\ UNCHANGED <<ndebug, constraint, nFiles, pairIdx, Hs, pairOf, imagesSize, H, bbox,
                 bi, bc, q, mapped, pts, mH, mi, warped, mosaicSize>>

\* one iteration of the loop of a ComputeRelative*Matrices: cols is
\* xs2[0].cols() for the pair (pairIdx, pairIdx + 1)
RelativeStep(minCols, estimates) ==
  /\ pairIdx <= nFiles - 1
  /\ \E cols \in 0..MaxCorr :
       IF cols >= minCols
       THEN /\ \E A \in estimates : Hs' = Append(Hs, A)
            /\ pairOf' = Append(pairOf, pairIdx)
       ELSE /\ Hs' = Hs
            /\ pairOf' = pairOf
  /\ pairIdx' = pairIdx + 1
  /\ UNCHANGED <<pc, ndebug, constraint, nFiles, imagesSize, H, bbox,
                 bi, bc, q, mapped, pts, mH, mi, warped, mosaicSize>>

ComputeRelativeAffineMatrices ==
  /\ pc = "affine"
  /\ RelativeStep(AffineMinCols, AffineEstimates)

ComputeRelativeHomographyMatrices ==
  /\ pc = "homography"
  /\ RelativeStep(HomographyMinCols, HomographyEstimates)

\* main has left the switch on FLAGS_constraint and calls BuildMosaic
\* (line 299)
BuildMosaicCalled ==
  /\ pc \in {"affine", "homography"}
  /\ pairIdx > nFiles - 1

\* image_files.size() == Hs.size() - 1, on unsigned values (line 204)
FilesMatchTransforms == Len(Hs) >= 1 /\ nFiles = Len(Hs) - 1

\* BuildMosaic, lines 203-215: the first assertions, the size of the first
\* image, and the start of ComputeGlobalBoundingBox (lines 157-165).
\* Hs.size() - 1 is compared as an unsigned value: with Hs empty it is the
\* largest one and equals no files.size().
BuildMosaicBegin ==
  /\ BuildMosaicCalled
  /\ IF ~ndebug /\ ~FilesMatchTransforms
     THEN /\ pc' = "assert_failed_204"
          /\ UNCHANGED <<imagesSize, bbox>>
     ELSE /\ pc' = "bbox"
          /\ \E w \in 0..MaxSize, h \in 0..MaxSize : imagesSize' = <<w, h>>
          /\ bbox' = BBoxInit(imagesSize')
  /\ UNCHANGED <<ndebug, constraint, nFiles, pairIdx, Hs, pairOf, H,
                 bi, bc, q, mapped, pts, mH, mi, warped, mosaicSize>>

\* ComputeGlobalBoundingBox: one corner of one image (lines 166-182); the
\* first corner of an image comes after H = Hs[i] * H
BBoxCorner ==
  /\ pc = "bbox"
  /\ bi <= Len(Hs)
  /\ LET Hn == IF bc = 1 THEN BBoxChainStep(Hs[bi], H) ELSE H
         qh == MatVec(Hn, QBounds(imagesSize, bc))
         qx == DivCeil0(qh[1], qh[3])
         qy == DivCeil0(qh[2], qh[3])
     IN  /\ H' = Hn
         /\ q' = qh
         /\ mapped' = IF bc = 1 THEN Append(mapped, Hn) ELSE mapped
         /\ pts' = Append(pts, <<qx, qy>>)
         /\ \E bx \in AxisUpdate(bbox[1], bbox[2], qx),
               by \in AxisUpdate(bbox[3], bbox[4], qy) :
              bbox' = <<bx[1], bx[2], by[1], by[2]>>
  /\ IF bc = 4 THEN bi' = bi + 1 /\ bc' = 1
               ELSE bi' = bi /\ bc' = bc + 1
  /\ UNCHANGED <<pc, ndebug, constraint, nFiles, pairIdx, Hs, pairOf, imagesSize,
                 mH, mi, warped, mosaicSize>>

\* ComputeGlobalBoundingBox returns (line 184)
BBoxReturn ==
  /\ pc = "bbox"
  /\ bi > Len(Hs)
  /\ pc' = "bbox_returned"
  /\ UNCHANGED <<ndebug, constraint, nFiles, pairIdx, Hs, pairOf, imagesSize, H, bbox,
                 bi, bc, q, mapped, pts, mH, mi, warped, mosaicSize>>

\* assert(bbox(1) < bbox(0)); assert(bbox(3) < bbox(2));  (lines 218-219)
BBoxAssertions == bbox[2] < bbox[1] /\ bbox[4] < bbox[3]

\* BuildMosaic, lines 217-237: the assertions on bbox, the size of the mosaic
BuildMosaicResize ==
  /\ pc = "bbox_returned"
  /\ IF ~ndebug /\ ~BBoxAssertions
     THEN /\ pc' = "assert_failed_218"
          /\ UNCHANGED mosaicSize
     ELSE /\ pc' = "warp"
          /\ \E w \in UnsignedDiff(bbox[2], bbox[1]),
                h \in UnsignedDiff(bbox[4], bbox[3]) :
               mosaicSize' = <<w, h>>
  /\ UNCHANGED <<ndebug, constraint, nFiles, pairIdx, Hs, pairOf, imagesSize, H, bbox,
                 bi, bc, q, mapped, pts, mH, mi, warped>>

\* BuildMosaic, one iteration of the loop of lines 238-253. Hs[i - 1] past
\* the end of Hs is an out-of-bounds read: the program stops, or goes on with
\* whatever matrix the memory holds. A NULL image is not warped.
BuildMosaicWarp ==
  /\ pc = "warp"
  /\ mi < nFiles
  /\ \/ /\ mi > Len(Hs)
        /\ mi > 0
        /\ pc' = "crashed"
        /\ UNCHANGED <<mH, mi, warped>>
     \/ \E rel \in (IF mi = 0 THEN {Mat3Identity}
                    ELSE IF mi <= Len(Hs) THEN {Hs[mi]}
                    ELSE OutOfBoundsMatrices) :
          /\ pc' = pc
          /\ mH' = IF mi = 0 THEN mH ELSE MosaicChainStep(rel, mH)
          /\ mi' = mi + 1
          /\ \E loaded \in BOOLEAN :
               warped' = IF loaded THEN [image |-> mi + 1, H |-> mH']
                         ELSE warped
  /\ UNCHANGED <<ndebug, constraint, nFiles, pairIdx, Hs, pairOf, imagesSize, H, bbox,
                 bi, bc, q, mapped, pts, mosaicSize>>

\* BuildMosaic returns; main writes the mosaic and returns 0
MainFinish ==
  /\ pc = "warp"
  /\ mi >= nFiles
  /\ pc' = "done"
  /\ UNCHANGED <<ndebug, constraint, nFiles, pairIdx, Hs, pairOf, imagesSize, H, bbox,
                 bi, bc, q, mapped, pts, mH, mi, warped, mosaicSize>>


\* ------------------------------------------- claims on the mosaicing tool
\* Hs[k - 1] * ... * Hs[0] (0-based, as in the source): the absolute
\* transform of image k + 1
RECURSIVE ChainProduct(_, _)
ChainProduct(hs, k) ==
  IF k = 0 THEN Mat3Identity ELSE MatMul(hs[k], ChainProduct(hs, k - 1))

AllIdentity == \A k \in 1..Len(Hs) : Hs[k] = Mat3Identity

BBoxReturned == pc = "bbox_returned"

AllFinite == \A k \in 1..Len(pts) : pts[k][1].k = "fin" /\ pts[k][2].k = "fin"

SetMin(set) == CHOOSE x \in set : \A y \in set : x <= y
SetMax(set) == CHOOSE x \in set : \A y \in set : x >= y

\* the smallest box covering the corners of image 1 and every rounded corner
\* of the later images
CoveringBox ==
  LET xs == {0, imagesSize[1]} \cup {pts[k][1].v : k \in 1..Len(pts)}
      ys == {0, imagesSize[2]} \cup {pts[k][2].v : k \in 1..Len(pts)}
  IN  <<SetMin(xs), SetMax(xs), SetMin(ys), SetMax(ys)>>

\* C1: for a chain of N >= 1 identity transforms and image size W x H,
\* ComputeGlobalBoundingBox returns (xmin, xmax, ymin, ymax) = (0, W, 0, H).
C1_IdentityChainBox ==
  (BBoxReturned /\ Len(Hs) >= 1 /\ AllIdentity)
    => bbox = <<0, imagesSize[1], 0, imagesSize[2]>>

C1_Witness ==
  /\ BBoxReturned
  /\ Len(Hs) >= 2
  /\ AllIdentity
  /\ imagesSize[1] > 0
  /\ imagesSize[2] > imagesSize[1]
  /\ bbox = <<0, imagesSize[1], 0, imagesSize[2]>>

\* C2: the box returned by ComputeGlobalBoundingBox is the smallest box that
\* covers the corners of image 1 (under the identity) and the rounded corners
\* of every later image under its absolute transform.
C2_SmallestCoveringBox ==
  (BBoxReturned /\ AllFinite) => bbox = CoveringBox

\* C3: on return from ComputeGlobalBoundingBox, xmin <= xmax and
\* ymin <= ymax, for a chain of any length.
C3_BoxOrdered ==
  BBoxReturned => (bbox[1] <= bbox[2] /\ bbox[3] <= bbox[4])

\* ComputeRelative*Matrices return void and write nothing but *As / *Hs: no
\* position of the program stands for a failure reported to their caller
RelativeFailureReported == pc = "fit_failed"

RelativeReturned ==
  pc \notin {"main", "not_enough_files"} /\ pairIdx > nFiles - 1

\* C7: ComputeRelative*Matrices leave one transform per adjacent pair, entry
\* i fit to images i and i + 1, or a failure the caller can see: a pair is
\* never dropped without signal.
C7_OnePerPairOrFailure ==
  RelativeReturned =>
    \/ RelativeFailureReported
    \/ /\ Len(Hs) = nFiles - 1
       /\ \A k \in 1..Len(Hs) : pairOf[k] = k

\* C8: a corner whose homogeneous coordinate is zero is reported as a
\* degenerate transform: the division is not performed and the box is not
\* updated from it.
C8_ZeroHomogeneousReported ==
  (q # NoPoint /\ q[3] = 0) =>
    /\ pc = "degenerate_transform"
    /\ AllFinite

\* C9: image 1 is warped under the identity, and every image k >= 2 of a
\* chain of N - 1 transforms is warped by BuildMosaic under the transform
\* under which ComputeGlobalBoundingBox mapped its corners,
\* Hs[k - 2] * ... * Hs[0].
C9_SameAbsoluteTransform ==
  /\ \A k \in 1..Len(mapped) : mapped[k] = ChainProduct(Hs, k)
  /\ (Len(Hs) = nFiles - 1 /\ warped # NoWarp) =>
       IF warped.image = 1
       THEN warped.H = Mat3Identity
       ELSE /\ warped.H = ChainProduct(Hs, warped.image - 1)
            /\ warped.H = mapped[warped.image - 1]

C9_Witness ==
  /\ Len(Hs) = nFiles - 1
  /\ warped.image = 3
  /\ warped.H = MatMul(Hs[2], Hs[1])
  /\ warped.H # MatMul(Hs[1], Hs[2])
  /\ warped.H = mapped[2]

\* whether the box holds the rounded point pt, when both coordinates of pt
\* are finite
BoxIncludes(box, pt) ==
  (pt[1].k = "fin" /\ pt[2].k = "fin") =>
    /\ box[1] <= pt[1].v /\ pt[1].v <= box[2]
    /\ box[3] <= pt[2].v /\ pt[2].v <= box[4]

\* the corner ComputeGlobalBoundingBox has just processed is in the running
\* box
LastCornerIncluded ==
  (pc = "bbox" /\ pts # <<>>) => BoxIncludes(bbox, pts[Len(pts)])

\* on return, every processed corner is in the box
ProcessedCornersIncluded ==
  BBoxReturned => \A k \in 1..Len(pts) : BoxIncludes(bbox, pts[k])

\* C11: in ComputeGlobalBoundingBox, the running box includes each mapped and
\* rounded corner right after it is processed (xmin <= q.x <= xmax and
\* ymin <= q.y <= ymax), and the box returned includes every processed
\* corner, for every chain.
C11_RunningBoxIncludesCorner ==
  LastCornerIncluded /\ ProcessedCornersIncluded

\* C12: in the main pipeline with N >= 2 image files and every adjacent pair
\* having enough correspondences (so that Hs has N - 1 entries), the
\* condition asserted at the start of BuildMosaic holds:
\* image_files.size() == Hs.size() - 1.
C12_FilesMatchTransformsAtEntry ==
  (BuildMosaicCalled /\ nFiles >= 2 /\ Len(Hs) = nFiles - 1)
    => FilesMatchTransforms

\* the unsigned w and h of the mosaic are xmax - xmin and ymax - ymin of a
\* box with xmin <= xmax and ymin <= ymax
ExtentsTrue ==
  /\ bbox[1] <= bbox[2]
  /\ bbox[3] <= bbox[4]
  /\ ~SubOverflows(bbox[2], bbox[1])
  /\ ~SubOverflows(bbox[4], bbox[3])
  /\ mosaicSize = <<ToUnsigned(bbox[2] - bbox[1]), ToUnsigned(bbox[4] - bbox[3])>>

\* C13: for the box just returned by ComputeGlobalBoundingBox, the
\* conditions asserted by BuildMosaic, bbox(1) < bbox(0) and
\* bbox(3) < bbox(2), hold for every chain, and the unsigned width and height
\* of the mosaic are the true extents of the box.
C13_BoxAssertionsAndExtents ==
  /\ BBoxReturned => BBoxAssertions
  /\ mosaicSize # <<>> => ExtentsTrue

\* C14: in the main pipeline, every access Hs[i - 1] of BuildMosaic's loop
\* (i from 1 to image_files.size() - 1) is within the bounds of Hs, for every
\* number of files and every distribution of correspondences over the pairs,
\* pairs skipped by ComputeRelative*Matrices included.
C14_HsAccessInBounds ==
  /\ (pc = "warp" /\ mi > 0 /\ mi < nFiles) => mi <= Len(Hs)
  /\ pc # "crashed"

\* ---------------------------------------------------------------- rationals
\* A double is modelled by a rational <<num, den>> in lowest terms, den > 0.
\* NonFinite stands for an infinity or a NaN: what a division by zero leaves,
\* and what any arithmetic on it leaves.
NonFinite == <<0, 0>>

Abs(x) == IF x < 0 THEN -x ELSE x

RECURSIVE GCD(_, _)
GCD(a, b) == IF b = 0 THEN a ELSE GCD(b, a % b)

RNorm(n, d) ==
  IF d = 0 THEN NonFinite
  ELSE LET g == GCD(Abs(n), Abs(d))
       IN  IF d < 0 THEN <<(-n) \div g, (-d) \div g>>
           ELSE <<n \div g, d \div g>>

Rat(n) == <<n, 1>>
IsFinite(a) == a[2] # 0
\* common factors are cancelled before multiplying, to keep the integers small
RAdd(a, b) ==
  IF IsFinite(a) /\ IsFinite(b)
  THEN LET g == GCD(a[2], b[2])
       IN  RNorm(a[1] * (b[2] \div g) + b[1] * (a[2] \div g),
                 (a[2] \div g) * b[2])
  ELSE NonFinite
RNeg(a) == IF IsFinite(a) THEN <<-a[1], a[2]>> ELSE NonFinite
RSub(a, b) == RAdd(a, RNeg(b))
RMul(a, b) ==
  IF IsFinite(a) /\ IsFinite(b)
  THEN LET g1 == GCD(Abs(a[1]), b[2])
           g2 == GCD(Abs(b[1]), a[2])
       IN  RNorm((a[1] \div g1) * (b[1] \div g2),
                 (a[2] \div g2) * (b[2] \div g1))
  ELSE NonFinite
RDiv(a, b) ==
  IF IsFinite(a) /\ IsFinite(b) /\ b[1] # 0
  THEN RMul(a, IF b[1] < 0 THEN <<-b[2], -b[1]>> ELSE <<b[2], b[1]>>)
  ELSE NonFinite
RLess(a, b) == a[1] * b[2] < b[1] * a[2]
RPositive(a) == IsFinite(a) /\ a[1] > 0
RNegative(a) == IsFinite(a) /\ a[1] < 0
RZero == Rat(0)
ROne == Rat(1)

\* sqrt, on the squares of rationals: the inputs of the model are those on
\* which no other square root is taken
\* the largest r in lo..hi with r * r <= n, by bisection (lo * lo <= n)
RECURSIVE SqrtFloor(_, _, _)
SqrtFloor(n, lo, hi) ==
  IF lo >= hi THEN lo
  ELSE LET mid == (lo + hi + 1) \div 2
       IN  IF mid * mid <= n THEN SqrtFloor(n, mid, hi)
           ELSE SqrtFloor(n, lo, mid - 1)
\* 46340 * 46340 is the largest square of the 32-bit integers of the checker
SqrtNat(n) == SqrtFloor(n, 0, IF n < 46340 THEN n ELSE 46340)
IsSquareNat(n) == SqrtNat(n) * SqrtNat(n) = n
IsSquare(a) == IsFinite(a) /\ a[1] >= 0 /\ IsSquareNat(a[1]) /\ IsSquareNat(a[2])
\* a[1] and a[2] are then squares themselves: a is in lowest terms
RSqrt(a) ==
  IF IsSquare(a) THEN <<SqrtNat(a[1]), SqrtNat(a[2])>>
  ELSE CHOOSE r \in {} : TRUE

\* ---- 3x3 matrices and 3-vectors of rationals
RMat(M) == [i \in 1..3 |-> [j \in 1..3 |-> Rat(M[i][j])]]
RIdentity == RMat(Mat3Identity)
RSum3(a, b, c) == RAdd(RAdd(a, b), c)
RMatMul(A, B) ==
  [i \in 1..3 |-> [j \in 1..3 |->
     RSum3(RMul(A[i][1], B[1][j]), RMul(A[i][2], B[2][j]),
           RMul(A[i][3], B[3][j]))]]
RMatVec(A, v) ==
  [i \in 1..3 |->
     RSum3(RMul(A[i][1], v[1]), RMul(A[i][2], v[2]), RMul(A[i][3], v[3]))]
RTranspose(A) == [i \in 1..3 |-> [j \in 1..3 |-> A[j][i]]]
RMatNeg(A) == [i \in 1..3 |-> [j \in 1..3 |-> RNeg(A[i][j])]]
RMatDiv(A, c) == [i \in 1..3 |-> [j \in 1..3 |-> RDiv(A[i][j], c)]]
RDet(A) ==
  RSum3(RMul(A[1][1], RSub(RMul(A[2][2], A[3][3]), RMul(A[2][3], A[3][2]))),
        RNeg(RMul(A[1][2],
                  RSub(RMul(A[2][1], A[3][3]), RMul(A[2][3], A[3][1])))),
        RMul(A[1][3], RSub(RMul(A[2][1], A[3][2]), RMul(A[2][2], A[3][1]))))
\* the entry (i, j) of the adjugate: the cofactor of (j, i)
RCofactor(A, i, j) ==
  LET r1 == (j % 3) + 1
      r2 == ((j + 1) % 3) + 1
      c1 == (i % 3) + 1
      c2 == ((i + 1) % 3) + 1
  IN  RSub(RMul(A[r1][c1], A[r2][c2]), RMul(A[r1][c2], A[r2][c1]))
\* Eigen's inverse of a fixed 3x3 matrix: cofactors divided by the
\* determinant, every entry non-finite when the determinant is zero
RInverse(A) ==
  [i \in 1..3 |-> [j \in 1..3 |-> RDiv(RCofactor(A, i, j), RDet(A))]]
MatFinite(A) == \A i \in 1..3 : \A j \in 1..3 : IsFinite(A[i][j])

\* ------------------------------------------------------------- KRt_From_P
MaxDiag == 2

\* P.block(0, 0, 3, 3)
Block33(Pm) == [i \in 1..3 |-> [j \in 1..3 |-> Pm[i][j]]]
\* P.col(3)
Col4(Pm) == [i \in 1..3 |-> Pm[i][4]]

Norm2(c, s) == RSqrt(RAdd(RMul(c, c), RMul(s, s)))

\* Qx of lines 40-47, from the K of line 39
GivensQx(Km) ==
  LET c0 == RNeg(Km[3][3])
      s0 == Km[3][2]
      l  == Norm2(c0, s0)
      c  == RDiv(c0, l)
      s  == RDiv(s0, l)
  IN  <<<<ROne, RZero, RZero>>, <<RZero, c, RNeg(s)>>, <<RZero, s, c>>>>

\* Qy of lines 53-60
GivensQy(Km) ==
  LET c0 == Km[3][3]
      s0 == Km[3][1]
      l  == Norm2(c0, s0)
      c  == RDiv(c0, l)
      s  == RDiv(s0, l)
  IN  <<<<c, RZero, s>>, <<RZero, ROne, RZero>>, <<RNeg(s), RZero, c>>>>

\* Qz of lines 66-73
GivensQz(Km) ==
  LET c0 == RNeg(Km[2][2])
      s0 == Km[2][1]
      l  == Norm2(c0, s0)
      c  == RDiv(c0, l)
      s  == RDiv(s0, l)
  IN  <<<<c, RNeg(s), RZero>>, <<s, c, RZero>>, <<RZero, RZero, ROne>>>>

\* the mutant of QAccumulate: the rotation itself, not its transpose
QAccumulateNoTranspose(G, Qm) == RMatMul(G, Qm)

\* Q = Qx.transpose() * Q
QAccumulate(G, Qm) == RMatMul(RTranspose(G), Qm)

\* K = K * Qx
KRotate(Km, G) == RMatMul(Km, G)

FlipS(k) ==
  [i \in 1..3 |-> [j \in 1..3 |->
     IF i # j THEN RZero ELSE IF i = k THEN Rat(-1) ELSE ROne]]

\* lines 85-104 on <<K, R>>
SignsStep1(KR) ==
  IF RNegative(KR[1][3][3]) THEN <<RMatNeg(KR[1]), RMatNeg(KR[2])>> ELSE KR
SignsStep2(KR) ==
  IF RNegative(KR[1][2][2])
  THEN <<RMatMul(KR[1], FlipS(2)), RMatMul(FlipS(2), KR[2])>> ELSE KR
SignsStep3(KR) ==
  IF RNegative(KR[1][1][1])
  THEN <<RMatMul(KR[1], FlipS(1)), RMatMul(FlipS(1), KR[2])>> ELSE KR
EnsurePositiveDiagonal(Km, Rm) == SignsStep3(SignsStep2(SignsStep1(<<Km, Rm>>)))

\* the K each Givens step starts from
KAfterX(M) ==
  IF M[3][2] # RZero THEN KRotate(M, GivensQx(M)) ELSE M
KAfterY(M) ==
  LET K1 == KAfterX(M)
  IN  IF K1[3][1] # RZero THEN KRotate(K1, GivensQy(K1)) ELSE K1

SquareNorm(c, s) == IsSquare(RAdd(RMul(c, c), RMul(s, s)))

\* the matrices on which every sqrt of KRt_From_P is the root of the square
\* of a rational
ExactGivens(M) ==
  /\ SquareNorm(M[3][3], M[3][2])
  /\ SquareNorm(KAfterX(M)[3][3], KAfterX(M)[3][1])
  /\ SquareNorm(KAfterY(M)[2][2], KAfterY(M)[2][1])

\* ---- the inputs: P = [K0 * R0 | p4], K0 upper triangular, R0 a rotation
UpperTriangular(a, b, c) ==
  RMat(<<<<a, 1, 2>>, <<0, b, -1>>, <<0, 0, c>>>>)

RotX == <<<<ROne, RZero, RZero>>, <<RZero, <<3, 5>>, <<-4, 5>>>>,
          <<RZero, <<4, 5>>, <<3, 5>>>>>>
RotY == <<<<<<3, 5>>, RZero, <<4, 5>>>>, <<RZero, ROne, RZero>>,
          <<<<-4, 5>>, RZero, <<3, 5>>>>>>
RotZ == <<<<<<3, 5>>, <<-4, 5>>, RZero>>, <<<<4, 5>>, <<3, 5>>, RZero>>,
          <<RZero, RZero, ROne>>>>

Rotations ==
  {RIdentity, RotX, RotY, RotZ, RMatMul(RotY, RotX),
   RMatMul(RotZ, RMatMul(RotY, RotX))}

FourthColumns == {<<RZero, RZero, RZero>>, <<Rat(1), Rat(-2), Rat(3)>>}

MakeP(M, c4) == [i \in 1..3 |-> [j \in 1..4 |-> IF j = 4 THEN c4[i] ELSE M[i][j]]]

ProjectionInputs ==
  {MakeP(RMatMul(UpperTriangular(a, b, c), R0), c4) :
     a \in -MaxDiag..MaxDiag, b \in -MaxDiag..MaxDiag, c \in -MaxDiag..MaxDiag,
     R0 \in Rotations, c4 \in FourthColumns}

RZeroMat == RMat(<<<<0, 0, 0>>, <<0, 0, 0>>, <<0, 0, 0>>>>)
NoP == [i \in 1..3 |-> [j \in 1..4 |-> RZero]]

KRtIdle ==
  /\ kpc = "idle"
  /\ P = NoP
  /\ K = RZeroMat
  /\ Q = RZeroMat
  /\ R = RZeroMat
  /\ t = <<RZero, RZero, RZero>>
  /\ Pc = NoP

KRtInit ==
  /\ kpc = "givens_x"
  /\ P \in {Pm \in ProjectionInputs : ExactGivens(Block33(Pm))}
  /\ K = RZeroMat
  /\ Q = RZeroMat
  /\ R = RZeroMat
  /\ t = <<RZero, RZero, RZero>>
  /\ Pc = NoP

\* lines 33-50: K and Q are set, then K(2,1) is set to zero
KRt_GivensX ==
  /\ kpc = "givens_x"
  /\ LET K0 == Block33(P)
     IN  IF K0[3][2] # RZero
         THEN /\ K' = KRotate(K0, GivensQx(K0))
              /\ Q' = QAccumulate(GivensQx(K0), RIdentity)
         ELSE /\ K' = K0
              /\ Q' = RIdentity
  /\ kpc' = "givens_y"
  /\ UNCHANGED <<P, R, t, Pc>>

\* lines 51-63: K(2,0) is set to zero
KRt_GivensY ==
  /\ kpc = "givens_y"
  /\ IF K[3][1] # RZero
     THEN /\ K' = KRotate(K, GivensQy(K))
          /\ Q' = QAccumulate(GivensQy(K), Q)
     ELSE UNCHANGED <<K, Q>>
  /\ kpc' = "givens_z"
  /\ UNCHANGED <<P, R, t, Pc>>

\* lines 64-76: K(1,0) is set to zero. Qz is declared without a size
\* (Mat Qz;) and then filled by <<: the writes go outside the matrix, so the
\* program stops there, or goes on as with a 3x3 Qz.
KRt_GivensZ ==
  /\ kpc = "givens_z"
  /\ IF K[2][1] # RZero
     THEN \/ /\ K' = KRotate(K, GivensQz(K))
             /\ Q' = QAccumulate(GivensQz(K), Q)
             /\ kpc' = "signs"
          \/ /\ kpc' = "crashed"
             /\ UNCHANGED <<K, Q>>
     ELSE /\ kpc' = "signs"
          /\ UNCHANGED <<K, Q>>
  /\ UNCHANGED <<P, R, t, Pc>>

\* lines 78-104: R = Q, then the signs of the diagonal of K
KRt_Signs ==
  /\ kpc = "signs"
  /\ LET KR == EnsurePositiveDiagonal(K, Q)
     IN  K' = KR[1] /\ R' = KR[2]
  /\ kpc' = "translation"
  /\ UNCHANGED <<P, Q, t, Pc>>

\* lines 106-111: t = K.inverse() * p
KRt_Translation ==
  /\ kpc = "translation"
  /\ t' = RMatVec(RInverse(K), Col4(P))
  /\ kpc' = "scale"
  /\ UNCHANGED <<P, K, Q, R, Pc>>

\* lines 113-118: K = K / K(2,2), and the results are stored
KRt_Return ==
  /\ kpc = "scale"
  /\ K' = RMatDiv(K, K[3][3])
  /\ kpc' = "returned"
  /\ UNCHANGED <<P, Q, R, t, Pc>>

\* P_From_KRt on the K, R, t returned: P = K * [R | t]
P_From_KRt ==
  /\ kpc = "returned"
  /\ Pc' = [i \in 1..3 |-> [j \in 1..4 |->
              IF j = 4 THEN RMatVec(K, t)[i] ELSE RMatMul(K, R)[i][j]]]
  /\ kpc' = "composed"
  /\ UNCHANGED <<P, K, Q, R, t>>

\* ----------------------------------------- FundamentalRank2Parameterization
MaxSigma == 2

\* Eigen: Quaternion = 3x3 matrix. Coefficients are in the order x, y, z, w.
QuaternionFromMatrix(M) ==
  LET tr == RSum3(M[1][1], M[2][2], M[3][3])
  IN  IF RPositive(tr)
      THEN LET r  == RSqrt(RAdd(tr, ROne))
               h  == RDiv(<<1, 2>>, r)
           IN  <<RMul(RSub(M[3][2], M[2][3]), h),
                 RMul(RSub(M[1][3], M[3][1]), h),
                 RMul(RSub(M[2][1], M[1][2]), h),
                 RMul(<<1, 2>>, r)>>
      ELSE LET i0 == IF RLess(M[1][1], M[2][2]) THEN 2 ELSE 1
               i  == IF RLess(M[i0][i0], M[3][3]) THEN 3 ELSE i0
               j  == (i % 3) + 1
               k  == (j % 3) + 1
               r  == RSqrt(RAdd(RSub(RSub(M[i][i], M[j][j]), M[k][k]), ROne))
               h  == RDiv(<<1, 2>>, r)
           IN  [c \in 1..4 |->
                  IF c = i THEN RMul(<<1, 2>>, r)
                  ELSE IF c = j THEN RMul(RAdd(M[j][i], M[i][j]), h)
                  ELSE IF c = k THEN RMul(RAdd(M[k][i], M[i][k]), h)
                  ELSE RMul(RSub(M[k][j], M[j][k]), h)]

\* Eigen: Quaternion::normalize()
QuaternionNormalize(qt) ==
  LET n == RSqrt(RAdd(RAdd(RMul(qt[1], qt[1]), RMul(qt[2], qt[2])),
                      RAdd(RMul(qt[3], qt[3]), RMul(qt[4], qt[4]))))
  IN  [c \in 1..4 |-> RDiv(qt[c], n)]

\* Eigen: Quaternion::toRotationMatrix()
QuaternionToRotationMatrix(qt) ==
  LET two == Rat(2)
      tx  == RMul(two, qt[1])
      ty  == RMul(two, qt[2])
      tz  == RMul(two, qt[3])
      twx == RMul(tx, qt[4])
      twy == RMul(ty, qt[4])
      twz == RMul(tz, qt[4])
      txx == RMul(tx, qt[1])
      txy == RMul(ty, qt[1])
      txz == RMul(tz, qt[1])
      tyy == RMul(ty, qt[2])
      tyz == RMul(tz, qt[2])
      tzz == RMul(tz, qt[3])
  IN  <<<<RSub(ROne, RAdd(tyy, tzz)), RSub(txy, twz), RAdd(txz, twy)>>,
        <<RAdd(txy, twz), RSub(ROne, RAdd(txx, tzz)), RSub(tyz, twx)>>,
        <<RSub(txz, twy), RAdd(tyz, twx), RSub(ROne, RAdd(txx, tyy))>>>>

\* the mutant of SecondSingularValue: 1 / (1 + s)
SecondSingularValueLinear(s) == RDiv(ROne, RAdd(ROne, s))

\* T s = T(1.0) / (T(1.0) + p[4]*p[4])
SecondSingularValue(s) == RDiv(ROne, RAdd(ROne, RMul(s, s)))

\* sqrt(svd.singularValues()[0] / svd.singularValues()[1] - T(1.0))
ScaleParameter(sv) == RSqrt(RSub(RDiv(sv[1], sv[2]), ROne))

Diag3(a, b, c) ==
  <<<<a, RZero, RZero>>, <<RZero, b, RZero>>, <<RZero, RZero, c>>>>

\* ---- the inputs: F = U * diag(s) * V^T, with U and V rotations or
\* reflections, s[1] >= s[2] > 0, s[2] >= s[3] >= 0
UnitQuaternions ==
  {<<RZero, RZero, RZero, ROne>>,
   <<ROne, RZero, RZero, RZero>>,
   <<<<1, 2>>, <<1, 2>>, <<1, 2>>, <<1, 2>>>>,
   <<<<3, 5>>, RZero, RZero, <<4, 5>>>>,
   <<RZero, <<4, 5>>, <<3, 5>>, RZero>>}

Orthogonals ==
  {QuaternionToRotationMatrix(qt) : qt \in UnitQuaternions}
    \cup {RMatNeg(QuaternionToRotationMatrix(qt)) : qt \in UnitQuaternions}

\* s[1] / s[2] - 1 is the square of one of these
SigmaRoots == {RZero, ROne, Rat(2), <<1, 2>>, <<3, 2>>}

SingularValues ==
  {<<RMul(Rat(s2), RAdd(ROne, RMul(r, r))), Rat(s2), Rat(s3)>> :
     s2 \in 1..MaxSigma, s3 \in 0..MaxSigma, r \in SigmaRoots}

NoParameters == [c \in 1..9 |-> RZero]

FIdle ==
  /\ fpc = "idle"
  /\ F = RZeroMat
  /\ svd = [U |-> RZeroMat, s |-> <<RZero, RZero, RZero>>, V |-> RZeroMat]
  /\ p = NoParameters
  /\ S = RZeroMat
  /\ f = RZeroMat

FInit ==
  /\ fpc = "from"
  /\ svd \in {d \in [U : Orthogonals, s : SingularValues, V : Orthogonals] :
               ~RLess(d.s[2], d.s[3])}
  /\ F = RMatMul(svd.U, RMatMul(Diag3(svd.s[1], svd.s[2], svd.s[3]),
                                RTranspose(svd.V)))
  /\ p = NoParameters
  /\ S = RZeroMat
  /\ f = RZeroMat

\* From (lines 85-119)
From ==
  /\ fpc = "from"
  /\ LET u  == QuaternionNormalize(QuaternionFromMatrix(
                 IF RPositive(RDet(svd.U)) THEN svd.U ELSE RMatNeg(svd.U)))
         vt == QuaternionNormalize(QuaternionFromMatrix(
                 IF RPositive(RDet(svd.V)) THEN RTranspose(svd.V)
                 ELSE RMatNeg(RTranspose(svd.V))))
     IN  p' = u \o <<ScaleParameter(svd.s)>> \o vt
  /\ fpc' = "to"
  /\ UNCHANGED <<F, svd, S, f>>

\* To (lines 53-83), on the parameters From left
To ==
  /\ fpc = "to"
  /\ LET u  == <<p[1], p[2], p[3], p[4]>>
         vt == <<p[6], p[7], p[8], p[9]>>
     IN  /\ S' = Diag3(ROne, SecondSingularValue(p[5]), RZero)
         /\ f' = RMatMul(QuaternionToRotationMatrix(u),
                         RMatMul(S', QuaternionToRotationMatrix(vt)))
  /\ fpc' = "done"
  /\ UNCHANGED <<F, svd, p>>

\* ---------------------------------------------------------- specifications
MosaicIdle ==
  /\ pc = "idle"
  /\ ndebug = TRUE
  /\ constraint = AFFINE
  /\ nFiles = 1
  /\ pairIdx = 1
  /\ Hs = <<>>
  /\ pairOf = <<>>
  /\ imagesSize = <<0, 0>>
  /\ H = Mat3Identity
  /\ bbox = <<0, 0, 0, 0>>
  /\ bi = 1
  /\ bc = 1
  /\ q = NoPoint
  /\ mapped = <<>>
  /\ pts = <<>>
  /\ mH = Mat3Identity
  /\ mi = 0
  /\ warped = NoWarp
  /\ mosaicSize = <<>>

\* the mosaicing tool
Init == MosaicInit /\ KRtIdle /\ FIdle

Next ==
  \/ Main /\ UNCHANGED <<kvars, fvars>>
  \/ ComputeRelativeAffineMatrices /\ UNCHANGED <<kvars, fvars>>
  \/ ComputeRelativeHomographyMatrices /\ UNCHANGED <<kvars, fvars>>
  \/ BuildMosaicBegin /\ UNCHANGED <<kvars, fvars>>
  \/ BBoxCorner /\ UNCHANGED <<kvars, fvars>>
  \/ BBoxReturn /\ UNCHANGED <<kvars, fvars>>
  \/ BuildMosaicResize /\ UNCHANGED <<kvars, fvars>>
  \/ BuildMosaicWarp /\ UNCHANGED <<kvars, fvars>>
  \/ MainFinish /\ UNCHANGED <<kvars, fvars>>

Spec == Init /\ [][Next]_vars

\* KRt_From_P on a projection matrix, then P_From_KRt on what it returned
InitKRt == MosaicIdle /\ KRtInit /\ FIdle

NextKRt ==
  \/ KRt_GivensX /\ UNCHANGED <<mvars, fvars>>
  \/ KRt_GivensY /\ UNCHANGED <<mvars, fvars>>
  \/ KRt_GivensZ /\ UNCHANGED <<mvars, fvars>>
  \/ KRt_Signs /\ UNCHANGED <<mvars, fvars>>
  \/ KRt_Translation /\ UNCHANGED <<mvars, fvars>>
  \/ KRt_Return /\ UNCHANGED <<mvars, fvars>>
  \/ P_From_KRt /\ UNCHANGED <<mvars, fvars>>

SpecKRt == InitKRt /\ [][NextKRt]_vars

\* From on a matrix, then To on the parameters
InitF == MosaicIdle /\ KRtIdle /\ FInit

NextF ==
  \/ From /\ UNCHANGED <<mvars, kvars>>
  \/ To /\ UNCHANGED <<mvars, kvars>>

SpecF == InitF /\ [][NextF]_vars

\* ------------------------------------------------ claims on KRt_From_P
NonSingular == RDet(Block33(P)) # RZero

\* A = c * B for one c # 0
Proportional(A, B) ==
  \E i \in 1..3, j \in 1..4 :
    /\ B[i][j] # RZero
    /\ LET c == RDiv(A[i][j], B[i][j])
       IN  /\ c # RZero
           /\ \A i2 \in 1..3, j2 \in 1..4 : A[i2][j2] = RMul(c, B[i2][j2])

\* C4: for P with a non-singular leading 3x3 block, KRt_From_P returns K
\* with K(2,2) = 1, K(0,0) > 0, K(1,1) > 0, and R with determinant +1.
C4_DecompositionNormalized ==
  (kpc = "returned" /\ NonSingular) =>
    /\ K[3][3] = ROne
    /\ RPositive(K[1][1])
    /\ RPositive(K[2][2])
    /\ RDet(R) = ROne

C6_SingularCalibrationFailure ==
  ~NonSingular => kpc \notin {"returned", "composed"}

\* ------------------------- claims on FundamentalRank2Parameterization
\* the rank-2 projection of F: the third singular value dropped
Rank2Projection ==
  RMatMul(svd.U, RMatMul(Diag3(svd.s[1], svd.s[2], RZero), RTranspose(svd.V)))

SameOrientation == RPositive(RDet(svd.U)) = RPositive(RDet(svd.V))

SigmaRoundTrip ==
  /\ S = Diag3(ROne, RDiv(svd.s[2], svd.s[1]), RZero)
  /\ RPositive(S[2][2])
  /\ ~RLess(ROne, S[2][2])

\* C10 as stated: for s1 >= s2 > 0, To(From(M)) builds S = diag(1, s2/s1, 0)
\* with s2/s1 in (0, 1], and gives the rank-2 projection of M scaled by 1/s1.
C10_RoundTripScaledBySigma1 ==
  fpc = "done" =>
    /\ SigmaRoundTrip
    /\ f = RMatDiv(Rank2Projection, svd.s[1])

\* C10 amended: the scale is 1/s1 when the U and V of the SVD are both
\* rotations or both reflections, and -1/s1 when exactly one is a reflection.
C10_RoundTripUpToSign ==
  fpc = "done" =>
    /\ SigmaRoundTrip
    /\ f = IF SameOrientation
           THEN RMatDiv(Rank2Projection, svd.s[1])
           ELSE RMatNeg(RMatDiv(Rank2Projection, svd.s[1]))

C10_Witness ==
  /\ fpc = "done"
  /\ RLess(svd.s[2], svd.s[1])
  /\ RPositive(svd.s[3])
  /\ ~SameOrientation
  /\ p[5] = <<3, 2>>
  /\ S[2][2] = <<4, 13>>
  /\ f = RMatNeg(RMatDiv(Rank2Projection, svd.s[1]))
  /\ f # RMatDiv(Rank2Projection, svd.s[1])

====
